---- MODULE Spec2Model ----
(***************************************************************************)
(* A model of src/main.py: the expense pipeline that reads expenses.csv,   *)
(* validates every row, sums the accepted rows by (month, category) and    *)
(* writes monthly_expenses_summary.csv and invalid_expenses.csv.           *)
(*                                                                         *)
(* Text is a sequence of one-character strings, so that strip, split,      *)
(* replace, float() and strptime() are computed character by character.    *)
(* A float is the exact decimal it denotes, [kind, mant, exp] standing for *)
(* mant * 10^exp with mant free of trailing zeros; the texts of the        *)
(* pipeline denote integers, on which float addition is exact.             *)
(***************************************************************************)
EXTENDS Integers, Sequences, FiniteSets, TLC

(***************************************************************************)
(* Bounds of the model.                                                    *)
(***************************************************************************)
\* Longest amount text the amount specification enumerates.
MaxAmountLen == 4
\* Most lines after the header in the source file.
MaxLines == 2

(***************************************************************************)
(* Values and characters.                                                  *)
(***************************************************************************)
\* Python's None, a field the row does not hold: no text, since every element
\* of a text is a single character.
None == <<"None">>

Whitespace == {" ", "\t"}

Digits == {"0", "1", "2", "3", "4", "5", "6", "7", "8", "9"}

DigitVal(c) ==
  CASE c = "0" -> 0 [] c = "1" -> 1 [] c = "2" -> 2 [] c = "3" -> 3
    [] c = "4" -> 4 [] c = "5" -> 5 [] c = "6" -> 6 [] c = "7" -> 7
    [] c = "8" -> 8 [] c = "9" -> 9

DigitChar(n) ==
  CASE n = 0 -> "0" [] n = 1 -> "1" [] n = 2 -> "2" [] n = 3 -> "3"
    [] n = 4 -> "4" [] n = 5 -> "5" [] n = 6 -> "6" [] n = 7 -> "7"
    [] n = 8 -> "8" [] n = 9 -> "9"

\* str.lower() on the letters float() compares without regard to case.
Lower(c) ==
  CASE c = "N" -> "n" [] c = "A" -> "a" [] c = "I" -> "i" [] c = "F" -> "f"
    [] c = "T" -> "t" [] c = "Y" -> "y" [] c = "E" -> "e" [] OTHER -> c

LowerText(t) == [i \in 1..Len(t) |-> Lower(t[i])]

AllDigits(t) == \A i \in 1..Len(t) : t[i] \in Digits

\* int() of a text of digits.
RECURSIVE DigitsToInt(_)
DigitsToInt(t) ==
  IF t = <<>> THEN 0
  ELSE 10 * DigitsToInt(SubSeq(t, 1, Len(t) - 1)) + DigitVal(t[Len(t)])

\* str() of a natural number.
RECURSIVE NatToText(_)
NatToText(n) ==
  IF n < 10 THEN <<DigitChar(n)>>
  ELSE NatToText(n \div 10) \o <<DigitChar(n % 10)>>

\* The text of n, zero-padded on the left to at least width characters.
RECURSIVE ZeroPad(_, _)
ZeroPad(t, width) == IF Len(t) >= width THEN t ELSE ZeroPad(<<"0">> \o t, width)

(***************************************************************************)
(* str methods.                                                            *)
(***************************************************************************)
RECURSIVE LStrip(_)
LStrip(t) ==
  IF t # <<>> /\ Head(t) \in Whitespace THEN LStrip(Tail(t)) ELSE t

RECURSIVE RStrip(_)
RStrip(t) ==
  IF t # <<>> /\ t[Len(t)] \in Whitespace
    THEN RStrip(SubSeq(t, 1, Len(t) - 1))
    ELSE t

\* str.strip()
Strip(t) == RStrip(LStrip(t))

\* The first word of a text that starts with no whitespace.
RECURSIVE FirstWord(_)
FirstWord(t) ==
  IF t = <<>> \/ Head(t) \in Whitespace THEN <<>>
  ELSE <<Head(t)>> \o FirstWord(Tail(t))

\* str.split(): the words between runs of whitespace.
RECURSIVE Split(_)
Split(t) ==
  LET s == LStrip(t)
      w == FirstWord(s)
  IN IF s = <<>> THEN <<>>
     ELSE <<w>> \o Split(SubSeq(s, Len(w) + 1, Len(s)))

\* " ".join(words)
RECURSIVE Join(_)
Join(words) ==
  IF words = <<>> THEN <<>>
  ELSE IF Len(words) = 1 THEN words[1]
  ELSE words[1] \o <<" ">> \o Join(Tail(words))

\* str.replace(c, "")
Remove(t, c) == SelectSeq(t, LAMBDA x : x # c)

(***************************************************************************)
(* The result of a parser: a value, or the message of the ValueError.      *)
(***************************************************************************)
Ok(v) == [ok |-> TRUE, value |-> v]

Fail(reason) == [ok |-> FALSE, reason |-> reason]

(***************************************************************************)
(* normalize_category                                                      *)
(***************************************************************************)
normalize_category(value) ==
  IF value = None THEN Fail("Missing category")
  ELSE LET cleaned == Join(Split(Strip(value)))
       IN IF cleaned = <<>> THEN Fail("Missing category") ELSE Ok(cleaned)

(***************************************************************************)
(* float(): the builtin parse_amount calls.                                *)
(***************************************************************************)
Zero == [kind |-> "finite", mant |-> 0, exp |-> 0]

Inf(neg) == [kind |-> "inf", mant |-> IF neg THEN -1 ELSE 1, exp |-> 0]

NaN == [kind |-> "nan", mant |-> 0, exp |-> 0]

\* mant * 10^exp with the trailing zeros of mant moved into exp.
RECURSIVE Normalize(_, _)
Normalize(mant, exp) ==
  IF mant = 0 THEN Zero
  ELSE IF mant % 10 = 0 THEN Normalize(mant \div 10, exp + 1)
  ELSE [kind |-> "finite", mant |-> mant, exp |-> exp]

\* A run of digits in which single underscores may stand between two digits.
DigitPart(t) ==
  /\ t # <<>>
  /\ \A i \in 1..Len(t) : t[i] \in Digits \cup {"_"}
  /\ \A i \in 1..Len(t) :
       t[i] = "_" => /\ i > 1 /\ i < Len(t)
                     /\ t[i - 1] \in Digits /\ t[i + 1] \in Digits

\* Index of the first character of t that is in cs, or 0.
FirstIn(t, cs) ==
  IF \E i \in 1..Len(t) : t[i] \in cs
    THEN CHOOSE i \in 1..Len(t) : t[i] \in cs /\ \A j \in 1..(i - 1) : t[j] \notin cs
    ELSE 0

\* The magnitude of a double: overflow gives inf, underflow gives zero.
Ranged(neg, v) ==
  IF v.mant = 0 THEN Zero
  ELSE IF Len(NatToText(v.mant)) + v.exp > 309 THEN Inf(neg)
  ELSE IF Len(NatToText(v.mant)) + v.exp < -323 THEN Zero
  ELSE [v EXCEPT !.mant = IF neg THEN -v.mant ELSE v.mant]

\* An unsigned decimal literal: digits, an optional point, an optional exponent.
FloatLiteral(neg, t) ==
  LET e == FirstIn(t, {"e", "E"})
      mantissa == IF e = 0 THEN t ELSE SubSeq(t, 1, e - 1)
      expo == IF e = 0 THEN <<>> ELSE SubSeq(t, e + 1, Len(t))
      expoNeg == expo # <<>> /\ Head(expo) = "-"
      expoDigits == IF expo # <<>> /\ Head(expo) \in {"+", "-"} THEN Tail(expo) ELSE expo
      p == FirstIn(mantissa, {"."})
      int == IF p = 0 THEN mantissa ELSE SubSeq(mantissa, 1, p - 1)
      frac == IF p = 0 THEN <<>> ELSE SubSeq(mantissa, p + 1, Len(mantissa))
      wellFormed ==
        /\ e # 0 => DigitPart(expoDigits)
        /\ int # <<>> \/ frac # <<>>
        /\ int # <<>> => DigitPart(int)
        /\ frac # <<>> => DigitPart(frac)
      intD == Remove(int, "_")
      fracD == Remove(frac, "_")
      ex == DigitsToInt(Remove(expoDigits, "_"))
  IN IF ~wellFormed THEN Fail("could not convert string to float")
     ELSE Ok(Ranged(neg, Normalize(DigitsToInt(intD \o fracD),
                                   (IF expoNeg THEN -ex ELSE ex) - Len(fracD))))

\* float(text)
float(text) ==
  LET s == Strip(text)
      signed == s # <<>> /\ Head(s) \in {"+", "-"}
      neg == s # <<>> /\ Head(s) = "-"
      body == IF signed THEN Tail(s) ELSE s
      word == LowerText(body)
  IN IF word \in {<<"i", "n", "f">>, <<"i", "n", "f", "i", "n", "i", "t", "y">>}
       THEN Ok(Inf(neg))
     ELSE IF word = <<"n", "a", "n">> THEN Ok(NaN)
     ELSE FloatLiteral(neg, body)

(***************************************************************************)
(* parse_amount                                                            *)
(***************************************************************************)
parse_amount(value) ==
  IF value = None THEN Fail("Missing amount")
  ELSE LET normalized == Strip(Remove(value, ","))
       IN IF normalized = <<>> THEN Fail("Missing amount")
          ELSE LET parsed == float(normalized)
               IN IF parsed.ok THEN Ok(parsed.value) ELSE Fail("Invalid amount")

(***************************************************************************)
(* datetime.strptime: the format is compiled to a regular expression, one  *)
(* group per directive, matched from the start of the text; the whole text *)
(* must be consumed, and the fields must name a date of the calendar.      *)
(***************************************************************************)
\* DATE_FORMATS, each format as its sequence of directives and literals.
DATE_FORMATS ==
  << <<"%d", "-", "%m", "-", "%Y">>,
     <<"%d", "-", "%m", "-", "%y">>,
     <<"%d", "/", "%m", "/", "%Y">>,
     <<"%d", "/", "%m", "/", "%y">> >>

\* The alternatives of a directive's regular expression, in the order the
\* expression lists them, each as its length and a test of the matched text.
\*   %d  3[0-1] | [1-2]\d | 0[1-9] | [1-9] | " "[1-9]
\*   %m  1[0-2] | 0[1-9] | [1-9]
\*   %Y  \d\d\d\d        %y  \d\d
NAlts(tok) == CASE tok = "%d" -> 5 [] tok = "%m" -> 3 [] OTHER -> 1

AltLen(tok, k) ==
  CASE tok = "%d" -> IF k = 4 THEN 1 ELSE 2
    [] tok = "%m" -> IF k = 3 THEN 1 ELSE 2
    [] tok = "%Y" -> 4
    [] tok = "%y" -> 2
    [] OTHER -> 1

NonZeroDigits == Digits \ {"0"}

AltMatch(tok, k, s) ==
  IF tok = "%d" THEN
    CASE k = 1 -> s[1] = "3" /\ s[2] \in {"0", "1"}
      [] k = 2 -> s[1] \in {"1", "2"} /\ s[2] \in Digits
      [] k = 3 -> s[1] = "0" /\ s[2] \in NonZeroDigits
      [] k = 4 -> s[1] \in NonZeroDigits
      [] k = 5 -> s[1] = " " /\ s[2] \in NonZeroDigits
  ELSE IF tok = "%m" THEN
    CASE k = 1 -> s[1] = "1" /\ s[2] \in {"0", "1", "2"}
      [] k = 2 -> s[1] = "0" /\ s[2] \in NonZeroDigits
      [] k = 3 -> s[1] \in NonZeroDigits
  ELSE IF tok \in {"%Y", "%y"} THEN AllDigits(s)
  ELSE s[1] = tok

\* The matches of the directives toks against text from position pos, in the
\* order a backtracking matcher finds them: each the matched groups and the
\* position after the match.
RECURSIVE RegexMatches(_, _, _)
RECURSIVE AltMatches(_, _, _, _)
AltMatches(text, pos, toks, k) ==
  IF k > NAlts(Head(toks)) THEN <<>>
  ELSE LET n == AltLen(Head(toks), k)
           s == SubSeq(text, pos, pos + n - 1)
           rest == IF pos + n - 1 <= Len(text) /\ AltMatch(Head(toks), k, s)
                     THEN RegexMatches(text, pos + n, Tail(toks))
                     ELSE <<>>
       IN [i \in 1..Len(rest) |->
             [groups |-> <<s>> \o rest[i].groups, end |-> rest[i].end]]
          \o AltMatches(text, pos, toks, k + 1)

RegexMatches(text, pos, toks) ==
  IF toks = <<>> THEN << [groups |-> <<>>, end |-> pos] >>
  ELSE AltMatches(text, pos, toks, 1)

IsLeap(year) == year % 4 = 0 /\ (year % 100 # 0 \/ year % 400 = 0)

DaysInMonth(year, month) ==
  IF month = 2 THEN (IF IsLeap(year) THEN 29 ELSE 28)
  ELSE IF month \in {4, 6, 9, 11} THEN 30 ELSE 31

\* The year of a %y field: 69..99 are 1969..1999, 0..68 are 2000..2068.
TwoDigitYear(y) == IF y <= 68 THEN 2000 + y ELSE 1900 + y

\* strptime without the check that the match consumed the whole text.
strptime_PrefixMatch(text, fmt) ==
  LET found == RegexMatches(text, 1, fmt)
  IN IF found = <<>> THEN Fail("time data does not match format")
     ELSE LET g == found[1].groups
              day == DigitsToInt(Strip(g[1]))
              month == DigitsToInt(g[3])
              y == DigitsToInt(g[5])
              year == IF fmt[5] = "%y" THEN TwoDigitYear(y) ELSE y
          IN IF year < 1 \/ day > DaysInMonth(year, month)
               THEN Fail("day is out of range for month")
               ELSE Ok([year |-> year, month |-> month, day |-> day])

\* datetime.strptime(text, fmt); the time of day is always midnight and is left out.
strptime(text, fmt) ==
  LET found == RegexMatches(text, 1, fmt)
  IN IF found = <<>> THEN Fail("time data does not match format")
     ELSE IF found[1].end # Len(text) + 1 THEN Fail("unconverted data remains")
     ELSE LET g == found[1].groups
              day == DigitsToInt(Strip(g[1]))
              month == DigitsToInt(g[3])
              y == DigitsToInt(g[5])
              year == IF fmt[5] = "%y" THEN TwoDigitYear(y) ELSE y
          IN IF year < 1 \/ day > DaysInMonth(year, month)
               THEN Fail("day is out of range for month")
               ELSE Ok([year |-> year, month |-> month, day |-> day])

(***************************************************************************)
(* parse_date                                                              *)
(***************************************************************************)
\* The loop over DATE_FORMATS from format k on: the first format that parses.
RECURSIVE TryFormats(_, _)
TryFormats(cleaned, k) ==
  IF k > Len(DATE_FORMATS) THEN Fail("Invalid date format")
  ELSE LET parsed == strptime(cleaned, DATE_FORMATS[k])
       IN IF parsed.ok THEN parsed ELSE TryFormats(cleaned, k + 1)

parse_date(value) ==
  IF value = None THEN Fail("Missing date")
  ELSE LET cleaned == Strip(value)
       IN IF cleaned = <<>> THEN Fail("Missing date")
          ELSE TryFormats(cleaned, 1)

\* ExpenseRow.month_key: date.strftime("%Y-%m"), for years of four digits.
month_key(date) ==
  ZeroPad(NatToText(date.year), 4) \o <<"-">> \o ZeroPad(NatToText(date.month), 2)

(***************************************************************************)
(* sorted() on str: by code point, character by character.                 *)
(***************************************************************************)
\* ord(c) for the characters of the model's texts.
Ord(c) ==
  CASE c = "\t" -> 9 [] c = " " -> 32 [] c = "$" -> 36 [] c = "+" -> 43
    [] c = "," -> 44 [] c = "-" -> 45 [] c = "." -> 46 [] c = "/" -> 47
    [] c \in Digits -> 48 + DigitVal(c)
    [] c = "A" -> 65 [] c = "B" -> 66 [] c = "O" -> 79 [] c = "_" -> 95
    [] c = "a" -> 97 [] c = "d" -> 100 [] c = "e" -> 101 [] c = "n" -> 110
    [] c = "x" -> 120

\* a < b on str
RECURSIVE TextLess(_, _)
TextLess(a, b) ==
  IF b = <<>> THEN FALSE
  ELSE IF a = <<>> THEN TRUE
  ELSE IF Head(a) = Head(b) THEN TextLess(Tail(a), Tail(b))
  ELSE Ord(Head(a)) < Ord(Head(b))

\* sorted with reverse=True.
RECURSIVE sorted_Descending(_)
sorted_Descending(keys) ==
  IF keys = {} THEN <<>>
  ELSE LET greatest == CHOOSE x \in keys : \A y \in keys \ {x} : TextLess(y, x)
       IN <<greatest>> \o sorted_Descending(keys \ {greatest})

\* sorted(keys): the keys of a dict in ascending order.
RECURSIVE sorted(_)
sorted(keys) ==
  IF keys = {} THEN <<>>
  ELSE LET least == CHOOSE x \in keys : \A y \in keys \ {x} : TextLess(x, y)
       IN <<least>> \o sorted(keys \ {least})

(***************************************************************************)
(* float arithmetic and formatting, on the exact decimals.                 *)
(***************************************************************************)
RECURSIVE Pow10(_)
Pow10(n) == IF n <= 0 THEN 1 ELSE 10 * Pow10(n - 1)

Min(a, b) == IF a <= b THEN a ELSE b

\* a + b
FloatAdd(a, b) ==
  IF a.kind = "nan" \/ b.kind = "nan" THEN NaN
  ELSE IF a.kind = "inf" /\ b.kind = "inf"
    THEN (IF a.mant = b.mant THEN a ELSE NaN)
  ELSE IF a.kind = "inf" THEN a
  ELSE IF b.kind = "inf" THEN b
  ELSE LET e == Min(a.exp, b.exp)
       IN Normalize(a.mant * Pow10(a.exp - e) + b.mant * Pow10(b.exp - e), e)

Abs(n) == IF n < 0 THEN -n ELSE n

\* round(|v| * 100) for a finite v, ties to even.
Hundredths(v) ==
  IF v.exp >= -2 THEN Abs(v.mant) * Pow10(v.exp + 2)
  ELSE LET unit == Pow10(-2 - v.exp)
           q == Abs(v.mant) \div unit
           r == Abs(v.mant) % unit
       IN IF 2 * r > unit \/ (2 * r = unit /\ q % 2 = 1) THEN q + 1 ELSE q

\* f"{v:.2f}"
Format2f(v) ==
  IF v.kind = "nan" THEN <<"n", "a", "n">>
  ELSE IF v.kind = "inf"
    THEN (IF v.mant < 0 THEN <<"-">> ELSE <<>>) \o <<"i", "n", "f">>
  ELSE (IF v.mant < 0 THEN <<"-">> ELSE <<>>)
       \o NatToText(Hundredths(v) \div 100) \o <<".">>
       \o ZeroPad(NatToText(Hundredths(v) % 100), 2)

(***************************************************************************)
(* csv.DictReader over the source file.  A line of the file is the list    *)
(* of fields csv.reader yields for it: the empty list for a blank line,    *)
(* and fewer than four fields for a short row.  The header names the       *)
(* columns Category, Amount, Details, Date, in this order.                 *)
(***************************************************************************)
Category == 1
Amount == 2
Details == 3
Date == 4

\* row.get(column, ""): a column the row is too short for holds None.
Get(row, column) == IF column <= Len(row) THEN row[column] ELSE None

\* value or ""
OrEmpty(value) == IF value = None THEN <<>> ELSE value

\* A reader that takes the line after the next one: a row is lost at each turn.
NextRow_SkipsOne(lines, pos) ==
  IF \E j \in (pos + 2)..Len(lines) : lines[j] # <<>>
    THEN CHOOSE j \in (pos + 2)..Len(lines) :
           lines[j] # <<>> /\ \A i \in (pos + 2)..(j - 1) : lines[i] = <<>>
    ELSE 0

\* DictReader.__next__: the position of the next line that is not blank, or
\* 0 at the end of the file.  Blank lines are skipped and yield no row.
NextRow(lines, pos) ==
  IF \E j \in (pos + 1)..Len(lines) : lines[j] # <<>>
    THEN CHOOSE j \in (pos + 1)..Len(lines) :
           lines[j] # <<>> /\ \A i \in (pos + 1)..(j - 1) : lines[i] = <<>>
    ELSE 0

\* _invalid_row with the rows counted from the first data row, not the header.
_invalid_row_HeaderNotCounted(row, row_number, reason) ==
  [RowNumber |-> NatToText(row_number - 1),
   Category  |-> Strip(OrEmpty(Get(row, Category))),
   Amount    |-> Strip(OrEmpty(Get(row, Amount))),
   Details   |-> Strip(OrEmpty(Get(row, Details))),
   Date      |-> Strip(OrEmpty(Get(row, Date))),
   Reason    |-> reason]

(***************************************************************************)
(* _invalid_row                                                            *)
(***************************************************************************)
_invalid_row(row, row_number, reason) ==
  [RowNumber |-> NatToText(row_number),
   Category  |-> Strip(OrEmpty(Get(row, Category))),
   Amount    |-> Strip(OrEmpty(Get(row, Amount))),
   Details   |-> Strip(OrEmpty(Get(row, Details))),
   Date      |-> Strip(OrEmpty(Get(row, Date))),
   Reason    |-> reason]

(***************************************************************************)
(* read_expenses: the body of the loop, for one row and its index.         *)
(***************************************************************************)
ExpenseRow(category, amount, details, date) ==
  [category |-> category, amount |-> amount, details |-> details, date |-> date]

\* ReadRow with the date checked before the amount.
ReadRow_DateBeforeAmount(row, index) ==
  LET category == normalize_category(Get(row, Category))
      amount == parse_amount(Get(row, Amount))
      date == parse_date(Get(row, Date))
  IN IF ~category.ok
       THEN [valid |-> FALSE, entry |-> _invalid_row(row, index, category.reason)]
     ELSE IF ~date.ok
       THEN [valid |-> FALSE, entry |-> _invalid_row(row, index, date.reason)]
     ELSE IF ~amount.ok
       THEN [valid |-> FALSE, entry |-> _invalid_row(row, index, amount.reason)]
     ELSE [valid |-> TRUE,
           row |-> ExpenseRow(category.value, amount.value,
                              Strip(OrEmpty(Get(row, Details))), date.value)]

\* The row's fate: an ExpenseRow for valid_rows, or an entry for invalid_rows.
ReadRow(row, index) ==
  LET category_raw == Get(row, Category)
      amount_raw == Get(row, Amount)
      date_raw == Get(row, Date)
      details_raw == OrEmpty(Get(row, Details))
      category == normalize_category(category_raw)
      amount == parse_amount(amount_raw)
      date == parse_date(date_raw)
  IN IF ~category.ok
       THEN [valid |-> FALSE, entry |-> _invalid_row(row, index, category.reason)]
     ELSE IF ~amount.ok
       THEN [valid |-> FALSE, entry |-> _invalid_row(row, index, amount.reason)]
     ELSE IF ~date.ok
       THEN [valid |-> FALSE, entry |-> _invalid_row(row, index, date.reason)]
     ELSE [valid |-> TRUE,
           row |-> ExpenseRow(category.value, amount.value,
                              Strip(details_raw), date.value)]

(***************************************************************************)
(* summarize_by_month                                                      *)
(***************************************************************************)
\* dict()
EmptyDict == <<>>

\* d[key] = value
DictSet(d, key, value) ==
  [k \in DOMAIN d \cup {key} |-> IF k = key THEN value ELSE d[k]]

\* The defaultdict after totals[month][category] is read: a missing month is
\* inserted with no categories, a missing category with 0.0.
Touch(totals, month, category) ==
  LET inner == IF month \in DOMAIN totals THEN totals[month] ELSE EmptyDict
  IN DictSet(totals, month,
             IF category \in DOMAIN inner THEN inner
             ELSE DictSet(inner, category, Zero))

\* Accumulate with = in place of +=.
Accumulate_Overwrites(totals, expense) ==
  LET month == month_key(expense.date)
      read == Touch(totals, month, expense.category)
  IN DictSet(read, month, DictSet(read[month], expense.category, expense.amount))

\* totals[expense.month_key][expense.category] += expense.amount
Accumulate(totals, expense) ==
  LET month == month_key(expense.date)
      read == Touch(totals, month, expense.category)
  IN DictSet(read, month,
             DictSet(read[month], expense.category,
                     FloatAdd(read[month][expense.category], expense.amount)))

RECURSIVE summarize_by_month(_)
summarize_by_month(expenses) ==
  IF expenses = <<>> THEN EmptyDict
  ELSE Accumulate(summarize_by_month(SubSeq(expenses, 1, Len(expenses) - 1)),
                  expenses[Len(expenses)])

(***************************************************************************)
(* write_monthly_summary and print_summary                                 *)
(***************************************************************************)
\* The (month, category) pairs the two nested loops visit, in their order.
RECURSIVE MonthPairs(_, _)
MonthPairs(month, categories) ==
  IF categories = <<>> THEN <<>>
  ELSE << <<month, Head(categories)>> >> \o MonthPairs(month, Tail(categories))

RECURSIVE PairsOf(_, _)
PairsOf(summary, months) ==
  IF months = <<>> THEN <<>>
  ELSE MonthPairs(Head(months), sorted(DOMAIN summary[Head(months)]))
       \o PairsOf(summary, Tail(months))

\* The loops run over every category of the report within every month.
RECURSIVE PairsOfGrid(_, _, _)
PairsOfGrid(months, categories, all) ==
  IF months = <<>> THEN <<>>
  ELSE MonthPairs(Head(months), all) \o PairsOfGrid(Tail(months), categories, all)

VisitedPairs_Grid(summary) ==
  LET all == sorted(UNION { DOMAIN summary[m] : m \in DOMAIN summary })
  IN PairsOfGrid(sorted(DOMAIN summary), all, all)

VisitedPairs(summary) == PairsOf(summary, sorted(DOMAIN summary))

\* The summary after the loops have read summary[month][category] of each pair.
RECURSIVE TouchAll(_, _)
TouchAll(summary, pairs) ==
  IF pairs = <<>> THEN summary
  ELSE TouchAll(Touch(summary, Head(pairs)[1], Head(pairs)[2]), Tail(pairs))

\* The rows writer.writerow is given, after the header.
SummaryRows(summary) ==
  LET pairs == VisitedPairs(summary)
      read == TouchAll(summary, pairs)
  IN [i \in 1..Len(pairs) |->
        [Month |-> pairs[i][1], Category |-> pairs[i][2],
         TotalAmount |-> Format2f(read[pairs[i][1]][pairs[i][2]])]]

\* sum(values), from the int 0.
RECURSIVE SumOver(_, _)
SumOver(d, keys) ==
  IF keys = <<>> THEN Zero
  ELSE FloatAdd(SumOver(d, SubSeq(keys, 1, Len(keys) - 1)), d[keys[Len(keys)]])

\* The lines print_summary prints for one month.
RECURSIVE CategoryLines(_, _)
CategoryLines(d, categories) ==
  IF categories = <<>> THEN <<>>
  ELSE << [line |-> "category", category |-> Head(categories),
           total |-> Format2f(d[Head(categories)])] >>
       \o CategoryLines(d, Tail(categories))

RECURSIVE MonthLines(_, _)
MonthLines(summary, months) ==
  IF months = <<>> THEN <<>>
  ELSE LET month == Head(months)
           categories == sorted(DOMAIN summary[month])
       IN << [line |-> "month", month |-> month] >>
          \o CategoryLines(summary[month], categories)
          \o << [line |-> "total",
                 total |-> Format2f(SumOver(summary[month], categories))] >>
          \o MonthLines(summary, Tail(months))

\* The lines print_summary prints.
SummaryLines(summary) ==
  IF DOMAIN summary = {} THEN << [line |-> "No valid expense rows were found."] >>
  ELSE << [line |-> "Category-wise expenses by month:"] >>
       \o MonthLines(summary, sorted(DOMAIN summary))

(***************************************************************************)
(* The state of a run of main().                                           *)
(***************************************************************************)
VARIABLES
  source,        \* SOURCE_FILE: whether it exists, and its lines after the header
  summary_file,  \* SUMMARY_FILE: whether it exists, and its rows after the header
  invalid_file,  \* INVALID_FILE: whether it exists, and its rows after the header
  before,        \* the two output files as they were when the run began
  pc,            \* the statement of main() or read_expenses() to run next
  pos,           \* the lines of the source file the reader has consumed
  index,         \* the index enumerate() gives the next row
  valid_rows,    \* read_expenses: valid_rows, then main: expenses
  invalid_rows,  \* read_expenses and main: invalid_rows
  summary,       \* main: summary
  console,       \* the lines printed so far
  arg,           \* the argument of a parser called on its own
  result         \* the result of a parser called on its own

run_vars == <<source, summary_file, invalid_file, before, pc, pos, index,
              valid_rows, invalid_rows, summary, console>>

call_vars == <<arg, result>>

vars == <<run_vars, call_vars>>

NoFile == [exists |-> FALSE, rows |-> <<>>]

File(rows) == [exists |-> TRUE, rows |-> rows]

\* What an earlier run may have left in the output files.
StaleSummary ==
  File(<< [Month |-> <<"1", "9", "9", "9", "-", "0", "1">>, Category |-> <<"O">>,
           TotalAmount |-> <<"1", ".", "0", "0">>] >>)

StaleInvalid ==
  File(<< [RowNumber |-> <<"9">>, Category |-> <<"O">>, Amount |-> <<"x">>,
           Details |-> <<>>, Date |-> <<>>, Reason |-> "Invalid amount"] >>)

\* The fields the rows of the source file are made of.
Categories == { <<" ">>, <<"A", " ">>, <<"B">> }

Amounts == { <<"x">>, <<"5">> }

Dates ==
  { <<"2", "0", "2", "4", "-", "0", "1", "-", "0", "1">>,
    <<"0", "1", "-", "0", "1", "-", "2", "0", "2", "4">>,
    <<"1", "5", "/", "0", "2", "/", "2", "4">> }

\* The lines of the source file: a blank line, rows of four fields with no
\* details, a row with details and a negative amount with a thousands
\* separator, and a short row that holds a category only.
Lines ==
  { <<>> }
  \cup { <<c, a, <<>>, d>> : c \in Categories, a \in Amounts, d \in Dates }
  \cup { << <<"A">>, <<"-", "1", ",", "0", "0", "0">>, <<" ", "d", " ">>,
            <<"1", "-", "1", "-", "2", "0", "2", "4">> >>,
         << <<"B">> >> }

Sources == UNION { [1..n -> Lines] : n \in 0..MaxLines }

Pending == Fail("pending")

\* The variables of a run, while a parser is called on its own.
NoRun ==
  /\ source = NoFile
  /\ summary_file = NoFile
  /\ invalid_file = NoFile
  /\ before = [summary |-> NoFile, invalid |-> NoFile]
  /\ pc = "none"
  /\ pos = 0
  /\ index = 2
  /\ valid_rows = <<>>
  /\ invalid_rows = <<>>
  /\ summary = EmptyDict
  /\ console = <<>>

Init ==
  /\ source \in {NoFile} \cup { File(lines) : lines \in Sources }
  /\ summary_file \in {NoFile, StaleSummary}
  /\ invalid_file \in {NoFile, StaleInvalid}
  /\ before = [summary |-> summary_file, invalid |-> invalid_file]
  /\ pc = "read_expenses"
  /\ pos = 0
  /\ index = 2
  /\ valid_rows = <<>>
  /\ invalid_rows = <<>>
  /\ summary = EmptyDict
  /\ console = <<>>
  /\ arg = None
  /\ result = Pending

(***************************************************************************)
(* read_expenses                                                           *)
(***************************************************************************)
\* read_expenses without the check: a missing file reads as an empty one.
ReadExpensesOpen_NoCheck ==
  /\ pc = "read_expenses"
  /\ pc' = "read_loop"
  /\ UNCHANGED <<source, summary_file, invalid_file, before, pos, index,
                 valid_rows, invalid_rows, summary, console, call_vars>>

\* The check that the path exists: FileNotFoundError leaves main() at once.
ReadExpensesOpen ==
  /\ pc = "read_expenses"
  /\ pc' = IF source.exists THEN "read_loop" ELSE "FileNotFoundError"
  /\ UNCHANGED <<source, summary_file, invalid_file, before, pos, index,
                 valid_rows, invalid_rows, summary, console, call_vars>>

\* One turn of the loop over the reader.
ReadExpensesRow ==
  /\ pc = "read_loop"
  /\ NextRow(source.rows, pos) # 0
  /\ LET at == NextRow(source.rows, pos)
         fate == ReadRow(source.rows[at], index)
     IN /\ pos' = at
        /\ index' = index + 1
        /\ valid_rows' = IF fate.valid THEN Append(valid_rows, fate.row)
                         ELSE valid_rows
        /\ invalid_rows' = IF fate.valid THEN invalid_rows
                           ELSE Append(invalid_rows, fate.entry)
  /\ UNCHANGED <<source, summary_file, invalid_file, before, pc, summary,
                 console, call_vars>>

\* The reader is exhausted: read_expenses returns its two lists.
ReadExpensesReturn ==
  /\ pc = "read_loop"
  /\ NextRow(source.rows, pos) = 0
  /\ pos' = Len(source.rows)
  /\ pc' = "summarize_by_month"
  /\ UNCHANGED <<source, summary_file, invalid_file, before, index,
                 valid_rows, invalid_rows, summary, console, call_vars>>

(***************************************************************************)
(* main, after read_expenses                                               *)
(***************************************************************************)
Summarize ==
  /\ pc = "summarize_by_month"
  /\ summary' = summarize_by_month(valid_rows)
  /\ pc' = "write_monthly_summary"
  /\ UNCHANGED <<source, summary_file, invalid_file, before, pos, index,
                 valid_rows, invalid_rows, console, call_vars>>

write_monthly_summary ==
  /\ pc = "write_monthly_summary"
  /\ summary_file' = File(SummaryRows(summary))
  /\ summary' = TouchAll(summary, VisitedPairs(summary))
  /\ pc' = "write_invalid_rows"
  /\ UNCHANGED <<source, invalid_file, before, pos, index, valid_rows,
                 invalid_rows, console, call_vars>>

\* write_invalid_rows that returns at once when there is nothing to write.
write_invalid_rows_KeepsStale ==
  /\ pc = "write_invalid_rows"
  /\ invalid_file' = IF invalid_rows = <<>> THEN invalid_file ELSE File(invalid_rows)
  /\ pc' = "print_summary"
  /\ UNCHANGED <<source, summary_file, before, pos, index, valid_rows,
                 invalid_rows, summary, console, call_vars>>

\* A rejected-rows file is written only when there are rows; with none, a
\* file left by an earlier run is unlinked.
write_invalid_rows ==
  /\ pc = "write_invalid_rows"
  /\ invalid_file' = IF invalid_rows = <<>>
                       THEN (IF invalid_file.exists THEN NoFile ELSE invalid_file)
                       ELSE File(invalid_rows)
  /\ pc' = "print_summary"
  /\ UNCHANGED <<source, summary_file, before, pos, index, valid_rows,
                 invalid_rows, summary, console, call_vars>>

print_summary ==
  /\ pc = "print_summary"
  /\ console' = console \o SummaryLines(summary)
  /\ summary' = TouchAll(summary, VisitedPairs(summary))
  /\ pc' = "print_excluded"
  /\ UNCHANGED <<source, summary_file, invalid_file, before, pos, index,
                 valid_rows, invalid_rows, call_vars>>

\* The last statement of main(): the count of the excluded rows, if any.
PrintExcluded ==
  /\ pc = "print_excluded"
  /\ console' = IF invalid_rows # <<>>
                  THEN Append(console, [line |-> "excluded",
                                        count |-> Len(invalid_rows)])
                  ELSE console
  /\ pc' = "done"
  /\ UNCHANGED <<source, summary_file, invalid_file, before, pos, index,
                 valid_rows, invalid_rows, summary, call_vars>>

Next ==
  \/ ReadExpensesOpen
  \/ ReadExpensesRow
  \/ ReadExpensesReturn
  \/ Summarize
  \/ write_monthly_summary
  \/ write_invalid_rows
  \/ print_summary
  \/ PrintExcluded

Spec == Init /\ [][Next]_vars

(***************************************************************************)
(* parse_amount called on its own, on every text of the amount alphabet.   *)
(***************************************************************************)
AmountAlphabet == {"0", "1", ".", "-", ",", " ", "$", "e", "_", "n", "a"}

AmountTexts == UNION { [1..n -> AmountAlphabet] : n \in 0..MaxAmountLen }

AmountInit ==
  /\ NoRun
  /\ arg \in AmountTexts \cup {None}
  /\ result = Pending

AmountCall ==
  /\ result = Pending
  /\ result' = parse_amount(arg)
  /\ UNCHANGED <<arg, run_vars>>

AmountSpec == AmountInit /\ [][AmountCall]_vars

(***************************************************************************)
(* parse_date called on its own, on texts put together from a day, a       *)
(* separator, a month, a separator and a year, with or without whitespace  *)
(* or a stray character around them.                                       *)
(***************************************************************************)
DayTexts ==
  { <<"1">>, <<"0", "1">>, <<"2", "9">>, <<"3", "0">>, <<"3", "1">>, <<"3", "2">>,
    <<"0", "0">>, <<"2", "0", "2", "4">> }

MonthTexts == { <<"2">>, <<"0", "2">>, <<"1", "2">>, <<"1", "3">>, <<"0", "0">> }

YearTexts ==
  { <<"2", "0", "2", "4">>, <<"2", "4">>, <<"2", "0", "2", "3">>, <<"2", "3">>,
    <<"6", "8">>, <<"6", "9">>, <<"1", "9", "6", "9">>, <<"0", "0", "0", "0">>,
    <<"2", "0", "2">>, <<"2", "0", "2", "4", "5">>, <<"0", "1">> }

Separators == {"-", "/"}

Leading == { <<>>, <<" ">> }

Trailing == { <<>>, <<" ">>, <<"x">> }

DateTexts ==
  { <<>>, <<" ">>, <<"\t", " ">> }
  \cup { l \o d \o <<s1>> \o m \o <<s2>> \o y \o t :
           l \in Leading, d \in DayTexts, s1 \in Separators, m \in MonthTexts,
           s2 \in Separators, y \in YearTexts, t \in Trailing }

DateInit ==
  /\ NoRun
  /\ arg \in DateTexts \cup {None}
  /\ result = Pending

DateCall ==
  /\ result = Pending
  /\ result' = parse_date(arg)
  /\ UNCHANGED <<arg, run_vars>>

DateSpec == DateInit /\ [][DateCall]_vars

(***************************************************************************)
(* What the properties of a run are stated with.  A data row is a line of  *)
(* the source file that is not blank; rows are counted from 1.             *)
(***************************************************************************)
NotBlank(line) == line # <<>>

\* The data rows the reader has consumed so far, and those of the whole file.
DataRows == SelectSeq(SubSeq(source.rows, 1, pos), NotBlank)

AllDataRows == SelectSeq(source.rows, NotBlank)

IsBlankText(value) == value = None \/ \A i \in 1..Len(value) : value[i] \in Whitespace

\* What read_expenses is to make of a row: the reason to reject it with, that
\* of the first field, in the order category, amount, date, that does not
\* parse, or "none" and the record of the row if all three parse.
Expected(row) ==
  LET amount == parse_amount(Get(row, Amount))
      date == parse_date(Get(row, Date))
  IN IF IsBlankText(Get(row, Category)) THEN [reason |-> "Missing category"]
     ELSE IF ~amount.ok THEN [reason |-> amount.reason]
     ELSE IF ~date.ok THEN [reason |-> date.reason]
     ELSE [reason |-> "none",
           category |-> normalize_category(Get(row, Category)).value,
           amount |-> amount.value,
           details |-> Strip(OrEmpty(Get(row, Details))),
           date |-> date.value,
           month |-> month_key(date.value)]

\* Expected, of each row of data in turn.
ExpectedOf(data) == SubSeq([k \in 1..Len(data) |-> Expected(data[k])], 1, Len(data))

Rejected(row) == Expected(row).reason # "none"

FailsCategory(row) == IsBlankText(Get(row, Category))

FailsAmount(row) == ~parse_amount(Get(row, Amount)).ok

FailsDate(row) == ~parse_date(Get(row, Date)).ok

RowNumberOf(entry) == DigitsToInt(entry.RowNumber)

PastRead ==
  pc \in {"summarize_by_month", "write_monthly_summary", "write_invalid_rows",
          "print_summary", "print_excluded", "done"}

PastSummarize == PastRead /\ pc # "summarize_by_month"

PastSummaryWrite == PastSummarize /\ pc # "write_monthly_summary"

PastInvalidWrite == PastSummaryWrite /\ pc # "write_invalid_rows"

\* The (month, category) pairs of a report, and of the accepted records.
ReportPairs(report) ==
  UNION { { <<m, c>> : c \in DOMAIN report[m] } : m \in DOMAIN report }

AcceptedPairs ==
  { <<month_key(valid_rows[j].date), valid_rows[j].category>> :
      j \in 1..Len(valid_rows) }

FilePairs(file) == { <<file.rows[i].Month, file.rows[i].Category>> : i \in 1..Len(file.rows) }

(***************************************************************************)
(* C1.  Every data row read is in exactly one of valid_rows and            *)
(* invalid_rows: the entries of invalid_rows name distinct data rows, the  *)
(* records of valid_rows are those of the other data rows, one each, and   *)
(* the two lengths add up to the number of data rows; when read_expenses   *)
(* has returned, these are all the data rows of the file.                  *)
(***************************************************************************)
C1_EveryRowInExactlyOneList ==
  LET data == DataRows
      named == { RowNumberOf(invalid_rows[i]) - 1 : i \in 1..Len(invalid_rows) }
      others == SelectSeq([k \in 1..Len(data) |-> k], LAMBDA k : k \notin named)
  IN /\ Len(valid_rows) + Len(invalid_rows) = Len(data)
     /\ named \subseteq 1..Len(data)
     /\ Cardinality(named) = Len(invalid_rows)
     /\ Len(valid_rows) = Len(others)
     /\ \A j \in 1..Len(valid_rows) :
          valid_rows[j].details = Strip(OrEmpty(Get(data[others[j]], Details)))
     /\ PastRead => data = AllDataRows

\* A file of a rejected row and, after it, an accepted row, read to its end.
C1_Witness ==
  /\ pc = "done"
  /\ Len(AllDataRows) = 2
  /\ invalid_rows # <<>> /\ invalid_rows[1].RowNumber = <<"2">>
  /\ Len(valid_rows) = 1

(***************************************************************************)
(* C2.  A rejected row carries one reason, that of the first of category,  *)
(* amount, date that fails; a row whose three fields parse is not          *)
(* rejected, whatever its details; and the rows after a rejected row are   *)
(* read and classified all the same.                                       *)
(***************************************************************************)
C2_FirstFailureReason ==
  LET data == DataRows
      expected == ExpectedOf(data)
  IN /\ \A i \in 1..Len(invalid_rows) :
          /\ RowNumberOf(invalid_rows[i]) - 1 \in 1..Len(data)
          /\ invalid_rows[i].Reason
               \in {"Missing category", "Missing amount", "Invalid amount",
                    "Missing date", "Invalid date format"}
          /\ invalid_rows[i].Reason = expected[RowNumberOf(invalid_rows[i]) - 1].reason
     /\ PastRead => Len(valid_rows) + Len(invalid_rows) = Len(AllDataRows)

\* Two rejected rows: the first with a bad category and a bad amount, the
\* second, read after it, with a bad amount and a bad date.
C2_Witness ==
  /\ pc = "done"
  /\ Len(invalid_rows) = 2
  /\ Len(AllDataRows) = 2
  /\ FailsCategory(AllDataRows[1]) /\ FailsAmount(AllDataRows[1])
  /\ invalid_rows[1].Reason = "Missing category"
  /\ ~FailsCategory(AllDataRows[2])
  /\ FailsAmount(AllDataRows[2]) /\ FailsDate(AllDataRows[2])
  /\ invalid_rows[2].Reason = "Invalid amount"

(***************************************************************************)
(* C3.  The total of every (month, category) group of the report is the    *)
(* sum, in the order of the rows, of the amounts of the rows of the file   *)
(* that pass all three checks and have that month key and that category;   *)
(* rows of another month or category, and rejected rows, add nothing.      *)
(***************************************************************************)
RECURSIVE GroupTotal(_, _, _)
GroupTotal(expected, month, category) ==
  IF expected = <<>> THEN Zero
  ELSE LET row == expected[Len(expected)]
           earlier == GroupTotal(SubSeq(expected, 1, Len(expected) - 1), month, category)
       IN IF row.reason = "none" /\ row.month = month /\ row.category = category
            THEN FloatAdd(earlier, row.amount)
            ELSE earlier

C3_GroupTotals ==
  PastSummarize =>
    LET expected == ExpectedOf(AllDataRows)
    IN \A m \in DOMAIN summary : \A c \in DOMAIN summary[m] :
         summary[m][c] = GroupTotal(expected, m, c)

\* Two accepted rows of one group, with different amounts.
C3_Witness ==
  /\ pc = "done"
  /\ Len(valid_rows) = 2
  /\ valid_rows[1].amount # valid_rows[2].amount
  /\ \E m \in DOMAIN summary : \E c \in DOMAIN summary[m] :
       summary[m][c] = FloatAdd(valid_rows[1].amount, valid_rows[2].amount)

(***************************************************************************)
(* C4.  Once write_invalid_rows has run, and so after a completed run,     *)
(* the rejected-rows file exists exactly if a row of this run was          *)
(* rejected, whatever was there before; if it exists it holds the entries  *)
(* of this run's rejected rows, one each, and nothing else.                *)
(***************************************************************************)
C4_RejectedFileIffRejections ==
  PastInvalidWrite =>
    /\ invalid_file.exists <=> invalid_rows # <<>>
    /\ invalid_file.exists =>
         /\ invalid_file.rows = invalid_rows
         /\ Len(invalid_file.rows) = Len(AllDataRows) - Len(valid_rows)
         /\ \A i \in 1..Len(invalid_file.rows) :
              invalid_file.rows[i] \notin { before.invalid.rows[k] :
                                              k \in 1..Len(before.invalid.rows) }

\* A run with data rows and no rejection removes the file an earlier run left.
C4_Witness ==
  /\ pc = "done"
  /\ before.invalid = StaleInvalid
  /\ Len(valid_rows) > 0
  /\ invalid_rows = <<>>
  /\ ~invalid_file.exists

(***************************************************************************)
(* C5.  If the source file does not exist, the run stops in read_expenses  *)
(* with FileNotFoundError: both output files stay as they were before the  *)
(* run and nothing is printed.                                             *)
(***************************************************************************)
C5_MissingSourceLeavesOutputs ==
  ~source.exists =>
    /\ pc \in {"read_expenses", "FileNotFoundError"}
    /\ summary_file = before.summary
    /\ invalid_file = before.invalid
    /\ console = <<>>

\* The run has stopped, with both files of an earlier run still in place.
C5_Witness ==
  /\ ~source.exists
  /\ pc = "FileNotFoundError"
  /\ summary_file = StaleSummary
  /\ invalid_file = StaleInvalid

(***************************************************************************)
(* C7.  The rows of the summary file are in strictly ascending order of    *)
(* (month, category), so no pair is written twice; with C8 the rows are    *)
(* then set by the groups alone, not by the order of the input rows.       *)
(***************************************************************************)
PairLess(r1, r2) ==
  \/ TextLess(r1.Month, r2.Month)
  \/ r1.Month = r2.Month /\ TextLess(r1.Category, r2.Category)

C7_SummaryRowsAscending ==
  PastSummaryWrite =>
    /\ summary_file.exists
    /\ \A i \in 1..Len(summary_file.rows) : \A j \in 1..Len(summary_file.rows) :
         i < j => PairLess(summary_file.rows[i], summary_file.rows[j])

\* Two groups whose records come in descending order in the input.
C7_Witness ==
  /\ pc = "done"
  /\ Len(valid_rows) = 2
  /\ Len(summary_file.rows) = 2
  /\ TextLess(month_key(valid_rows[2].date), month_key(valid_rows[1].date))

(***************************************************************************)
(* C8.  From summarize_by_month on, through the writing of the summary     *)
(* file and the printing of the report, the (month, category) pairs of     *)
(* the report are exactly those of the accepted records and no month is    *)
(* without a category; the summary file has one row per pair and no other. *)
(***************************************************************************)
C8_ReportPairsAreAcceptedPairs ==
  /\ PastSummarize =>
       /\ ReportPairs(summary) = AcceptedPairs
       /\ \A m \in DOMAIN summary : DOMAIN summary[m] # {}
  /\ PastSummaryWrite =>
       /\ FilePairs(summary_file) = AcceptedPairs
       /\ Len(summary_file.rows) = Cardinality(AcceptedPairs)

\* Two groups that differ in month and in category, after the report is printed.
C8_Witness ==
  /\ pc = "done"
  /\ Cardinality(DOMAIN summary) = 2
  /\ Cardinality(ReportPairs(summary)) = 2
  /\ \A p \in ReportPairs(summary) : \A q \in ReportPairs(summary) :
       p # q => p[2] # q[2]

(***************************************************************************)
(* C9.  A rejection entry carries the number k + 1 of its data row k,      *)
(* with that row's trimmed fields, and the numbers strictly increase along *)
(* invalid_rows; the accepted records are those of the other data rows,    *)
(* in the order of the rows.                                               *)
(***************************************************************************)
C9_RowNumbersAndOrder ==
  LET data == DataRows
      named == { RowNumberOf(invalid_rows[i]) - 1 : i \in 1..Len(invalid_rows) }
      others == SelectSeq([k \in 1..Len(data) |-> k], LAMBDA k : k \notin named)
  IN /\ \A i \in 1..Len(invalid_rows) :
          LET k == RowNumberOf(invalid_rows[i]) - 1
          IN /\ k \in 1..Len(data)
             /\ invalid_rows[i].RowNumber = NatToText(k + 1)
             /\ invalid_rows[i].Category = Strip(OrEmpty(Get(data[k], Category)))
             /\ invalid_rows[i].Amount = Strip(OrEmpty(Get(data[k], Amount)))
             /\ invalid_rows[i].Details = Strip(OrEmpty(Get(data[k], Details)))
             /\ invalid_rows[i].Date = Strip(OrEmpty(Get(data[k], Date)))
     /\ \A i \in 1..Len(invalid_rows) : \A j \in 1..Len(invalid_rows) :
          i < j => RowNumberOf(invalid_rows[i]) < RowNumberOf(invalid_rows[j])
     /\ Len(valid_rows) = Len(others)
     /\ \A j \in 1..Len(valid_rows) :
          LET expected == Expected(data[others[j]])
          IN /\ expected.reason = "none"
             /\ valid_rows[j].category = expected.category
             /\ valid_rows[j].amount = expected.amount
             /\ valid_rows[j].date = expected.date
             /\ valid_rows[j].details = expected.details

\* The second data row is rejected as row 3, after an accepted first row.
C9_Witness ==
  /\ pc = "done"
  /\ Len(valid_rows) = 1
  /\ Len(invalid_rows) = 1
  /\ invalid_rows[1].RowNumber = <<"3">>
  /\ AllDataRows = source.rows
  /\ Rejected(source.rows[2])

(***************************************************************************)
(* C6.  parse_amount fails with 'Missing amount' exactly on None and on    *)
(* whitespace alone; on any other text it returns a number if the text,    *)
(* its commas and the whitespace around it removed, is a decimal number,   *)
(* and fails with 'Invalid amount' if it is not.                           *)
(***************************************************************************)
\* An optional sign, then digits with at most one point among them, then an
\* optional exponent: e, an optional sign, digits.
PlainDecimal(t) ==
  /\ \E i \in 1..Len(t) : t[i] \in Digits
  /\ \A i \in 1..Len(t) : t[i] \in Digits \cup {"."}
  /\ Cardinality({ i \in 1..Len(t) : t[i] = "." }) <= 1

Unsigned(t) == IF t # <<>> /\ Head(t) \in {"+", "-"} THEN Tail(t) ELSE t

IsDecimalNumber(t) ==
  LET body == Unsigned(t)
      e == FirstIn(body, {"e", "E"})
  IN IF e = 0 THEN PlainDecimal(body)
     ELSE /\ PlainDecimal(SubSeq(body, 1, e - 1))
          /\ LET digits == Unsigned(SubSeq(body, e + 1, Len(body)))
             IN digits # <<>> /\ AllDigits(digits)

C6_AmountMissingOrInvalid ==
  result # Pending =>
    IF IsBlankText(arg) THEN result = Fail("Missing amount")
    ELSE IF IsDecimalNumber(Strip(Remove(arg, ",")))
      THEN result.ok /\ result.value.kind = "finite"
    ELSE result = Fail("Invalid amount")

(***************************************************************************)
(* C10.  parse_date fails with 'Missing date' on None and on whitespace    *)
(* alone.  Any other text, trimmed, is parsed by the first of the layouts  *)
(* d-m-yyyy, d-m-yy, d/m/yyyy, d/m/yy that the whole of it fits, and fails *)
(* with 'Invalid date format' if it fits none; and a date of the years     *)
(* 1969 to 2068, written in each of the four layouts, parses to itself,    *)
(* so to the same date and month key.                                      *)
(***************************************************************************)
LayoutSeparator(k) == IF k <= 2 THEN "-" ELSE "/"

LayoutYearLength(k) == IF k % 2 = 1 THEN 4 ELSE 2

\* The dates text t denotes in layout k: t is a day of one or two digits, the
\* separator, a month of one or two digits, the separator and a year of the
\* layout's length, and the three name a day of the calendar.
LayoutDates(t, k) ==
  { [year |-> IF LayoutYearLength(k) = 2
                THEN (IF DigitsToInt(SubSeq(t, ld + lm + 3, Len(t))) <= 68
                        THEN 2000 ELSE 1900) + DigitsToInt(SubSeq(t, ld + lm + 3, Len(t)))
                ELSE DigitsToInt(SubSeq(t, ld + lm + 3, Len(t))),
     month |-> DigitsToInt(SubSeq(t, ld + 2, ld + lm + 1)),
     day |-> DigitsToInt(SubSeq(t, 1, ld))] :
      <<ld, lm>> \in
        { p \in (1..2) \X (1..2) :
            /\ Len(t) = p[1] + p[2] + LayoutYearLength(k) + 2
            /\ t[p[1] + 1] = LayoutSeparator(k)
            /\ t[p[1] + p[2] + 2] = LayoutSeparator(k)
            /\ AllDigits(SubSeq(t, 1, p[1]))
            /\ AllDigits(SubSeq(t, p[1] + 2, p[1] + p[2] + 1))
            /\ AllDigits(SubSeq(t, p[1] + p[2] + 3, Len(t))) } }

IsCalendarDate(date) ==
  /\ date.year >= 1
  /\ date.month \in 1..12
  /\ date.day \in 1..DaysInMonth(date.year, date.month)

FittingDates(t, k) == { date \in LayoutDates(t, k) : IsCalendarDate(date) }

\* A date written in layout k, day and month with two digits.
Written(date, k) ==
  ZeroPad(NatToText(date.day), 2) \o <<LayoutSeparator(k)>>
  \o ZeroPad(NatToText(date.month), 2) \o <<LayoutSeparator(k)>>
  \o (IF LayoutYearLength(k) = 2 THEN ZeroPad(NatToText(date.year % 100), 2)
      ELSE ZeroPad(NatToText(date.year), 4))

C10_FirstFittingLayout ==
  result # Pending =>
    /\ IF IsBlankText(arg) THEN result = Fail("Missing date")
       ELSE LET t == Strip(arg)
                fitting == { k \in 1..4 : FittingDates(t, k) # {} }
            IN IF fitting = {} THEN result = Fail("Invalid date format")
               ELSE LET first == CHOOSE k \in fitting : \A j \in fitting : k <= j
                    IN result.ok /\ result.value \in FittingDates(t, first)
    /\ (result.ok /\ result.value.year \in 1969..2068) =>
         \A k \in 1..4 :
           /\ parse_date(Written(result.value, k)) = result
           /\ month_key(parse_date(Written(result.value, k)).value)
                = month_key(result.value)

\* 01/02/24, the last of the four layouts, parsed as the first of February 2024.
C10_Witness ==
  /\ arg = <<"0", "1", "/", "0", "2", "/", "2", "4">>
  /\ result = Ok([year |-> 2024, month |-> 2, day |-> 1])

====
